---- MODULE Spec2Model ----
(***************************************************************************)
(* Policy-gated profile store of WorkflowGene: the row-level-security      *)
(* policies and the profile bootstrap of the migration                      *)
(* 20250930132131_mellow_forest.sql, and the facade operations of            *)
(* src/lib/auth.js that read and write the profiles table through them.     *)
(***************************************************************************)
EXTENDS Integers, FiniteSets, Sequences, TLC

\* ------------------------------------------------------------------ bounds
MaxUsers == 2
MaxOrgs == 2
MaxUpdates == 1

\* --------------------------------------------------------------- constants
NULL == 0
SuperAdminEmail == "superadmin@workflowgene.cloud"
Emails == {SuperAdminEmail, "alice@co.com", "bob@co.com"}
Roles == {"user", "org_admin", "manager", "super_admin"}
UserIds == 1..MaxUsers
OrgIds == 1..MaxOrgs
Clients == {"c1", "c2"}
OrgNames == {"", "Acme"}

VARIABLES
    users,          \* auth.users: id -> [email, email_confirmed, first_name, last_name]
    profiles,       \* public.profiles: id -> row
    organizations,  \* public.organizations: id -> [name]
    session,        \* per client: auth.uid() of its session, NULL when signed out
    pc,             \* per client: position inside the facade call it is running
    loc,            \* per client: the locals of the call it is running
    ret,            \* per client: what its last finished facade call returned
    last,           \* the direct store request executed last, with its outcome
    nUpdates,       \* number of profile updates issued by clients so far
    configured      \* isSupabaseConfigured(): fixed by the build's environment

vars == <<users, profiles, organizations, session, pc, loc, ret, last, nUpdates,
          configured>>

\* ------------------------------------------------------------------ tables
Rows(tbl) == {tbl[i] : i \in DOMAIN tbl}

\* SQL "a = b": never true when either side is NULL
SqlEq(a, b) == a # NULL /\ b # NULL /\ a = b

\* column DEFAULT of profiles.is_active, used when an INSERT names no value
is_active_default == TRUE

\* profiles.email is declared unique
profiles_email_key(tbl) ==
    \A i \in DOMAIN tbl : \A j \in DOMAIN tbl : tbl[i].email = tbl[j].email => i = j

\* profiles.organization_id references organizations(id)
profiles_organization_fk(tbl, orgs) ==
    \A i \in DOMAIN tbl : tbl[i].organization_id = NULL \/ tbl[i].organization_id \in DOMAIN orgs

Constraints(tbl, orgs) == profiles_email_key(tbl) /\ profiles_organization_fk(tbl, orgs)

\* ---------------------------------------------------------------- policies
\* auth.uid() is NULL for a request without a session
profiles_select_own(uid, row) == SqlEq(uid, row.id)

profiles_update_own(uid, row) == SqlEq(uid, row.id)

profiles_service_role_all(row) == TRUE

IsSuperAdmin(uid, tbl) ==
    \E p \in Rows(tbl) : SqlEq(p.id, uid) /\ p.role = "super_admin"

profiles_super_admin_select_all(uid, tbl) == IsSuperAdmin(uid, tbl)

profiles_super_admin_update_all(uid, tbl) == IsSuperAdmin(uid, tbl)

\* the policy without its organization test
org_admin_select_any(uid, row, tbl) ==
    \E p \in Rows(tbl) : SqlEq(p.id, uid) /\ p.role \in {"org_admin", "manager"}

profiles_org_admin_select_org(uid, row, tbl) ==
    \E p \in Rows(tbl) :
        /\ SqlEq(p.id, uid)
        /\ p.role \in {"org_admin", "manager"}
        /\ SqlEq(p.organization_id, row.organization_id)

\* The database role of a request: the anon key without a session, the
\* session's user with one.
CredOf(uid) == IF uid = NULL THEN "anon" ELSE "authenticated"

\* Row-level security on profiles: permissive policies are OR-ed, a command
\* with no policy for the role is denied.
SelectAllowed(cred, uid, row, tbl) ==
    CASE cred = "service_role" -> profiles_service_role_all(row)
      [] cred = "authenticated" ->
            \/ profiles_select_own(uid, row)
            \/ profiles_super_admin_select_all(uid, tbl)
            \/ profiles_org_admin_select_org(uid, row, tbl)
      [] OTHER -> FALSE

UpdateAllowed(cred, uid, row, tbl) ==
    CASE cred = "service_role" -> profiles_service_role_all(row)
      [] cred = "authenticated" ->
            \/ profiles_update_own(uid, row)
            \/ profiles_super_admin_update_all(uid, tbl)
      [] OTHER -> FALSE

\* an INSERT rule letting a session insert the row with its own id
InsertOwnAllowed(cred, uid, row, tbl) ==
    CASE cred = "service_role" -> profiles_service_role_all(row)
      [] cred = "authenticated" -> SqlEq(uid, row.id)
      [] OTHER -> FALSE

InsertAllowed(cred, uid, row, tbl) ==
    CASE cred = "service_role" -> profiles_service_role_all(row)
      [] OTHER -> FALSE

DeleteAllowed(cred, uid, row, tbl) ==
    CASE cred = "service_role" -> profiles_service_role_all(row)
      [] OTHER -> FALSE

\* ------------------------------------------------------- bootstrap (SQL)
\* handle_new_user(): the trigger function fired with the auth.users row
\* new.  raise stands for an error raised by its INSERT other than the
\* constraint violations evaluated here; every error reaches the handler
\* WHEN OTHERS, which leaves the table as it was and returns new.

\* the role given without the test of the reserved address
NewUserRolePlain(email) == "user"

\* the role the trigger gives the new row
NewUserRole(email) ==
    IF email = SuperAdminEmail THEN "super_admin" ELSE "user"

NewUserRow(id, new) ==
    [ id |-> id,
      email |-> new.email,
      role |-> NewUserRole(new.email),
      organization_id |-> NULL,
      email_verified |-> new.email_confirmed,
      first_name |-> new.first_name,
      last_name |-> new.last_name,
      is_active |-> is_active_default ]

\* a conflict branch that also writes the derived role
OnConflictOverwrite(row, new) ==
    [row EXCEPT !.email = new.email, !.email_verified = new.email_confirmed,
                !.role = NewUserRole(new.email)]

OnConflictUpdate(row, new) ==
    [row EXCEPT !.email = new.email, !.email_verified = new.email_confirmed]

handle_new_user(tbl, orgs, id, new, raise) ==
    LET attempt == IF id \in DOMAIN tbl
                   THEN [tbl EXCEPT ![id] = OnConflictUpdate(tbl[id], new)]
                   ELSE tbl @@ (id :> NewUserRow(id, new))
    IN  IF raise \/ ~Constraints(attempt, orgs) THEN tbl ELSE attempt

\* The DO block of the migration (super admin setup), run by the migration
\* role, which row-level security does not restrict.
SuperAdminFix(row) ==
    [row EXCEPT !.role = "super_admin", !.organization_id = NULL,
                !.email_verified = TRUE, !.first_name = "Super",
                !.last_name = "Admin", !.is_active = TRUE]

SuperAdminConflictFix(row) ==
    [row EXCEPT !.role = "super_admin", !.organization_id = NULL,
                !.email_verified = TRUE, !.first_name = "Super",
                !.last_name = "Admin"]

SuperAdminInsertRow(id, u) ==
    [ id |-> id, email |-> u.email, first_name |-> "Super", last_name |-> "Admin",
      role |-> "super_admin", organization_id |-> NULL, email_verified |-> TRUE,
      is_active |-> TRUE ]

super_admin_setup(tbl, usrs, orgs) ==
    IF ~ \E r \in Rows(tbl) : r.email = SuperAdminEmail
    THEN LET src == {i \in DOMAIN usrs : usrs[i].email = SuperAdminEmail}
             attempt == [i \in DOMAIN tbl \cup src |->
                           IF i \notin src THEN tbl[i]
                           ELSE IF i \in DOMAIN tbl THEN SuperAdminConflictFix(tbl[i])
                           ELSE SuperAdminInsertRow(i, usrs[i])]
         IN  IF Constraints(attempt, orgs) THEN attempt ELSE tbl
    ELSE [i \in DOMAIN tbl |->
            IF tbl[i].email = SuperAdminEmail THEN SuperAdminFix(tbl[i]) ELSE tbl[i]]

\* The rows the DO block writes, that is, whose updated_at it sets to now():
\* the rows its INSERT ... ON CONFLICT produces, or the rows its UPDATE matches.
super_admin_setup_written(tbl, usrs, orgs) ==
    IF ~ \E r \in Rows(tbl) : r.email = SuperAdminEmail
    THEN LET src == {i \in DOMAIN usrs : usrs[i].email = SuperAdminEmail}
             attempt == [i \in DOMAIN tbl \cup src |->
                           IF i \notin src THEN tbl[i]
                           ELSE IF i \in DOMAIN tbl THEN SuperAdminConflictFix(tbl[i])
                           ELSE SuperAdminInsertRow(i, usrs[i])]
         IN  IF Constraints(attempt, orgs) THEN src ELSE {}
    ELSE {i \in DOMAIN tbl : tbl[i].email = SuperAdminEmail}

\* ------------------------------------------- store statements (client)
\* What a statement sent through the platform client does under row-level
\* security.  A result is [code, tbl, rows]: the error code ("ok" for none),
\* the table afterwards and the rows returned.
Visible(cred, uid, tbl) == {r \in Rows(tbl) : SelectAllowed(cred, uid, r, tbl)}

ByEmail(tbl, email) == {i \in DOMAIN tbl : tbl[i].email = email}

ById(tbl, id) == {i \in DOMAIN tbl : i = id}

\* .select().eq('id', id).single(): no visible row is PGRST116
SelectSingle(cred, uid, id, tbl) ==
    LET S == {r \in Visible(cred, uid, tbl) : r.id = id}
    IN  IF Cardinality(S) = 1
        THEN [code |-> "ok", tbl |-> tbl, rows |-> S]
        ELSE [code |-> "PGRST116", tbl |-> tbl, rows |-> {}]

\* .select().eq('email', email).maybeSingle(): no visible row is data = null
SelectMaybeSingle(cred, uid, email, tbl) ==
    LET S == {r \in Visible(cred, uid, tbl) : r.email = email}
    IN  IF Cardinality(S) <= 1
        THEN [code |-> "ok", tbl |-> tbl, rows |-> S]
        ELSE [code |-> "PGRST116", tbl |-> tbl, rows |-> {}]

ConstraintCode(tbl, orgs) ==
    IF ~profiles_email_key(tbl) THEN "23505"
    ELSE IF ~profiles_organization_fk(tbl, orgs) THEN "23503"
    ELSE "ok"

Failed(code, tbl) == [code |-> code, tbl |-> tbl, rows |-> {}]

Insert(cred, uid, row, tbl, orgs) ==
    IF ~InsertAllowed(cred, uid, row, tbl) THEN Failed("42501", tbl)
    ELSE IF row.id \in DOMAIN tbl THEN Failed("23505", tbl)
    ELSE LET t == tbl @@ (row.id :> row)
         IN  IF ConstraintCode(t, orgs) # "ok" THEN Failed(ConstraintCode(t, orgs), tbl)
             ELSE [code |-> "ok", tbl |-> t, rows |-> {}]

Apply(row, patch) ==
    [f \in DOMAIN row |-> IF f \in DOMAIN patch THEN patch[f] ELSE row[f]]

\* .upsert(row, {onConflict: 'id'}): INSERT ... ON CONFLICT (id) DO UPDATE
\* SET every column of the payload.  The INSERT policies are checked on the
\* proposed row before the conflict is looked for.
Upsert(cred, uid, payload, tbl, orgs) ==
    LET id == payload.id
        fresh == payload @@ [is_active |-> is_active_default]
    IN  IF ~InsertAllowed(cred, uid, fresh, tbl) THEN Failed("42501", tbl)
        ELSE IF id \in DOMAIN tbl /\ ~(UpdateAllowed(cred, uid, tbl[id], tbl)
                                        /\ SelectAllowed(cred, uid, tbl[id], tbl))
        THEN Failed("42501", tbl)
        ELSE LET t == IF id \in DOMAIN tbl
                      THEN [tbl EXCEPT ![id] = Apply(tbl[id], payload)]
                      ELSE tbl @@ (id :> fresh)
             IN  IF ConstraintCode(t, orgs) # "ok" THEN Failed(ConstraintCode(t, orgs), tbl)
                 ELSE [code |-> "ok", tbl |-> t, rows |-> {}]

\* .update(patch) with a filter matching the rows `match`: only rows that
\* pass the SELECT and the UPDATE policies are touched, the others are
\* skipped without an error.  No patch used here changes id, so the new row
\* passes the same policies.
Update(cred, uid, match, patch, tbl, orgs) ==
    LET targets == {i \in match : /\ SelectAllowed(cred, uid, tbl[i], tbl)
                                  /\ UpdateAllowed(cred, uid, tbl[i], tbl)}
        t == [i \in DOMAIN tbl |-> IF i \in targets THEN Apply(tbl[i], patch) ELSE tbl[i]]
    IN  IF ConstraintCode(t, orgs) # "ok" THEN Failed(ConstraintCode(t, orgs), tbl)
        ELSE [code |-> "ok", tbl |-> t, rows |-> {t[i] : i \in targets}]

Delete(cred, uid, match, tbl) ==
    LET targets == {i \in match : /\ SelectAllowed(cred, uid, tbl[i], tbl)
                                  /\ DeleteAllowed(cred, uid, tbl[i], tbl)}
    IN  [code |-> "ok", tbl |-> [i \in DOMAIN tbl \ targets |-> tbl[i]],
         rows |-> {tbl[i] : i \in targets}]

\* ------------------------------------------------------------ the facade
FirstNames == {"Ann"}
LastNames == {"Lee"}

NoLoc == [user |-> NULL, email |-> "", orgName |-> "", organizationId |-> NULL,
          confirmed |-> FALSE, firstName |-> "", lastName |-> ""]

\* what a facade call returned: arg is the email of a signUp, "" otherwise
NoRet == [op |-> "none", success |-> FALSE, error |-> "", arg |-> "", thrown |-> FALSE]

Result(op, success, error, arg) ==
    [op |-> op, success |-> success, error |-> error, arg |-> arg, thrown |-> FALSE]

\* the call ended with an exception reaching its caller
Thrown(op, message) ==
    [op |-> op, success |-> FALSE, error |-> message, arg |-> "", thrown |-> TRUE]

\* a statement or procedure as executed: who sent it, on which id, the error
\* code it ended with and the number of rows it returned or changed
Stmt(op, cred, uid, target, code, count) ==
    [op |-> op, cred |-> cred, uid |-> uid, target |-> target, code |-> code,
     count |-> count]

NoStmt == Stmt("none", "none", NULL, NULL, "ok", 0)

Init ==
    /\ users = <<>>
    /\ profiles = <<>>
    /\ organizations = <<>>
    /\ session = [c \in Clients |-> NULL]
    /\ pc = [c \in Clients |-> "idle"]
    /\ loc = [c \in Clients |-> NoLoc]
    /\ ret = [c \in Clients |-> NoRet]
    /\ last = NoStmt
    /\ nUpdates = 0
    /\ configured = TRUE

\* The identity provider keeps auth.users.email unique and answers a sign-up
\* for a registered address with this error.
AlreadyRegistered == "User already registered"

DatabaseErrorMessages == {"Database error saving new user"}

DatabaseIssue ==
    "Database connection issue. Please try again later or contact support if the problem persists."

\* signUp ignoring the authError
SignUpIgnored(message, email) == Result("signUp", TRUE, "", email)

\* signUp's answer to an authError
SignUpFailure(message, email) ==
    IF message \in DatabaseErrorMessages THEN Result("signUp", FALSE, DatabaseIssue, email)
    ELSE IF message # "" THEN Result("signUp", FALSE, message, email)
    ELSE Result("signUp", FALSE, "Signup failed. Please try again.", email)

\* the provider's outcome for a sign-up with this address
AuthSignUpError(usrs, email) ==
    IF \E i \in DOMAIN usrs : usrs[i].email = email THEN AlreadyRegistered ELSE ""

FreshId(ids, used) ==
    CHOOSE i \in ids \ used : \A j \in ids \ used : i <= j

\* signUp, first await: clearInvalidSession, then supabase.auth.signUp; the
\* insert into auth.users fires handle_new_user in the same transaction.
SignUpAuth(c, email, orgName, firstName, lastName, confirmed, raise) ==
    /\ configured
    /\ pc[c] = "idle"
    /\ LET message == AuthSignUpError(users, email)
       IN  IF message # ""
           THEN /\ ret' = [ret EXCEPT ![c] = SignUpFailure(message, email)]
                /\ session' = [session EXCEPT ![c] = NULL]
                /\ UNCHANGED <<users, profiles, pc, loc>>
           ELSE /\ DOMAIN users # UserIds
                /\ LET id == FreshId(UserIds, DOMAIN users)
                       new == [email |-> email, email_confirmed |-> confirmed,
                               first_name |-> firstName, last_name |-> lastName]
                   IN  /\ users' = users @@ (id :> new)
                       /\ profiles' = handle_new_user(profiles, organizations, id, new, raise)
                       /\ session' = [session EXCEPT ![c] = IF confirmed THEN id ELSE NULL]
                       /\ loc' = [loc EXCEPT ![c] =
                                    [user |-> id, email |-> email, orgName |-> orgName,
                                     organizationId |-> NULL, confirmed |-> confirmed,
                                     firstName |-> firstName, lastName |-> lastName]]
                       /\ pc' = [pc EXCEPT ![c] = IF orgName # "" THEN "su_org" ELSE "su_profile"]
                /\ UNCHANGED ret
    /\ UNCHANGED <<organizations, last, nUpdates, configured>>

\* signUp, the insert into organizations.  Its policies are not part of this
\* migration: the statement either returns the new row or an orgError.
SignUpOrg(c, ok) ==
    /\ pc[c] = "su_org"
    /\ IF ok
       THEN /\ DOMAIN organizations # OrgIds
            /\ LET oid == FreshId(OrgIds, DOMAIN organizations)
               IN  /\ organizations' = organizations @@ (oid :> [name |-> loc[c].orgName])
                   /\ loc' = [loc EXCEPT ![c].organizationId = oid]
       ELSE UNCHANGED <<organizations, loc>>
    /\ pc' = [pc EXCEPT ![c] = "su_profile"]
    /\ UNCHANGED <<users, profiles, session, ret, last, nUpdates, configured>>

SignUpRole(email, organizationId) ==
    IF email = SuperAdminEmail THEN "super_admin"
    ELSE IF organizationId # NULL THEN "org_admin"
    ELSE "user"

SignUpOrganizationId(email, organizationId) ==
    IF email = SuperAdminEmail THEN NULL ELSE organizationId

SignUpPayload(l) ==
    [ id |-> l.user, email |-> l.email, first_name |-> l.firstName,
      last_name |-> l.lastName,
      organization_id |-> SignUpOrganizationId(l.email, l.organizationId),
      role |-> SignUpRole(l.email, l.organizationId),
      email_verified |-> l.confirmed ]

\* signUp, the profile upsert; a profileError is logged and signUp succeeds
SignUpProfile(c) ==
    /\ pc[c] = "su_profile"
    /\ LET r == Upsert(CredOf(session[c]), session[c], SignUpPayload(loc[c]),
                       profiles, organizations)
       IN  profiles' = r.tbl
    /\ ret' = [ret EXCEPT ![c] = Result("signUp", TRUE, "", loc[c].email)]
    /\ pc' = [pc EXCEPT ![c] = "idle"]
    /\ loc' = [loc EXCEPT ![c] = NoLoc]
    /\ UNCHANGED <<users, organizations, session, last, nUpdates, configured>>

\* getCurrentProfile, first await: getCurrentUser, then the select of the
\* session user's own row
GetProfileSelect(c) ==
    /\ configured
    /\ pc[c] = "idle"
    /\ IF session[c] = NULL
       THEN /\ ret' = [ret EXCEPT ![c] = Result("getCurrentProfile", FALSE, "", "")]
            /\ UNCHANGED <<pc, loc>>
       ELSE LET r == SelectSingle(CredOf(session[c]), session[c], session[c], profiles)
            IN  IF r.code = "PGRST116"
                THEN /\ pc' = [pc EXCEPT ![c] = "gp_insert"]
                     /\ loc' = [loc EXCEPT ![c].user = session[c]]
                     /\ UNCHANGED ret
                ELSE /\ ret' = [ret EXCEPT ![c] =
                                  Result("getCurrentProfile", r.code = "ok", "", "")]
                     /\ UNCHANGED <<pc, loc>>
    /\ UNCHANGED <<users, profiles, organizations, session, last, nUpdates, configured>>

MissingProfileRow(id, user) ==
    [ id |-> id, email |-> user.email, email_verified |-> user.email_confirmed,
      role |-> IF user.email = SuperAdminEmail THEN "super_admin" ELSE "user",
      first_name |-> user.first_name, last_name |-> user.last_name,
      organization_id |-> NULL, is_active |-> is_active_default ]

\* getCurrentProfile, the retry of the select after the insert
GetProfileRefetch(cred, uid, id, tbl) ==
    Result("getCurrentProfile", SelectSingle(cred, uid, id, tbl).code = "ok", "", "")

\* getCurrentProfile, the insert of the missing profile and, when the insert
\* is accepted, the retry of the select
GetProfileInsert(c) ==
    /\ pc[c] = "gp_insert"
    /\ LET id == loc[c].user
           r == Insert(CredOf(session[c]), session[c], MissingProfileRow(id, users[id]),
                       profiles, organizations)
       IN  /\ profiles' = r.tbl
           /\ ret' = [ret EXCEPT ![c] =
                        IF r.code # "ok"
                        THEN Result("getCurrentProfile", FALSE, "", "")
                        ELSE GetProfileRefetch(CredOf(session[c]), session[c], id, r.tbl)]
    /\ pc' = [pc EXCEPT ![c] = "idle"]
    /\ loc' = [loc EXCEPT ![c] = NoLoc]
    /\ UNCHANGED <<users, organizations, session, last, nUpdates, configured>>

\* the profileData a caller may pass to updateProfile
Patches ==
    {[role |-> r] : r \in Roles}
    \cup {[organization_id |-> o] : o \in OrgIds \cup {NULL}}
    \cup {[email |-> e] : e \in Emails}
    \cup {[first_name |-> "Eve", last_name |-> "Roe"]}

\* updateProfile: .update({...profileData}).eq('id', user.id).select().single()
UpdateProfile(c, profileData) ==
    /\ pc[c] = "idle"
    /\ IF session[c] = NULL
       THEN /\ ret' = [ret EXCEPT ![c] =
                         Result("updateProfile", FALSE, "No authenticated user", "")]
            /\ UNCHANGED <<profiles, nUpdates>>
       ELSE /\ nUpdates < MaxUpdates
            /\ nUpdates' = nUpdates + 1
            /\ LET uid == session[c]
                   r == Update(CredOf(uid), uid, ById(profiles, uid), profileData,
                               profiles, organizations)
                   single == r.code = "ok" /\ Cardinality(r.rows) = 1
                   code == IF r.code = "ok" /\ ~single THEN "PGRST116" ELSE r.code
               IN  /\ profiles' = IF single THEN r.tbl ELSE profiles
                   /\ ret' = [ret EXCEPT ![c] =
                                Result("updateProfile", single, IF single THEN "" ELSE code, "")]
    /\ UNCHANGED <<users, organizations, session, pc, loc, last, configured>>

\* ensureSuperAdmin, the check: fault is an error returned by the store.
\* The function returns nothing; ret records whether it ended without
\* logging an error.
EnsureSuperAdminCheck(c, fault) ==
    /\ configured
    /\ pc[c] = "idle"
    /\ LET uid == session[c]
           r == SelectMaybeSingle(CredOf(uid), uid, SuperAdminEmail, profiles)
       IN  IF fault \/ r.code # "ok"
           THEN /\ ret' = [ret EXCEPT ![c] = Result("ensureSuperAdmin", FALSE, "", "")]
                /\ UNCHANGED pc
           ELSE IF \E e \in r.rows : e.role # "super_admin"
           THEN /\ pc' = [pc EXCEPT ![c] = "es_update"]
                /\ UNCHANGED ret
           ELSE /\ ret' = [ret EXCEPT ![c] = Result("ensureSuperAdmin", TRUE, "", "")]
                /\ UNCHANGED pc
    /\ UNCHANGED <<users, profiles, organizations, session, loc, last, nUpdates, configured>>

SuperAdminPatch ==
    [role |-> "super_admin", email_verified |-> TRUE, first_name |-> "Super",
     last_name |-> "Admin", organization_id |-> NULL, is_active |-> TRUE]

\* ensureSuperAdmin, the update of the rows with the reserved email
EnsureSuperAdminUpdate(c, fault) ==
    /\ pc[c] = "es_update"
    /\ LET uid == session[c]
           r == Update(CredOf(uid), uid, ByEmail(profiles, SuperAdminEmail),
                       SuperAdminPatch, profiles, organizations)
       IN  IF fault \/ r.code # "ok"
           THEN /\ ret' = [ret EXCEPT ![c] = Result("ensureSuperAdmin", FALSE, "", "")]
                /\ UNCHANGED profiles
           ELSE /\ ret' = [ret EXCEPT ![c] = Result("ensureSuperAdmin", TRUE, "", "")]
                /\ profiles' = r.tbl
    /\ pc' = [pc EXCEPT ![c] = "idle"]
    /\ UNCHANGED <<users, organizations, session, loc, last, nUpdates, configured>>

\* the migration's DO block, run again
SuperAdminSetup ==
    /\ profiles' = super_admin_setup(profiles, users, organizations)
    /\ UNCHANGED <<users, organizations, session, pc, loc, ret, last, nUpdates, configured>>

\* the trigger fired again for an auth.users row that exists
HandleNewUser(u, raise) ==
    /\ u \in DOMAIN users
    /\ profiles' = handle_new_user(profiles, organizations, u, users[u], raise)
    /\ UNCHANGED <<users, organizations, session, pc, loc, ret, last, nUpdates, configured>>

\* the identity provider records the confirmation of an address
ConfirmEmail(u) ==
    /\ u \in DOMAIN users
    /\ ~users[u].email_confirmed
    /\ users' = [users EXCEPT ![u].email_confirmed = TRUE]
    /\ UNCHANGED <<profiles, organizations, session, pc, loc, ret, last, nUpdates, configured>>

\* signIn after a failed update of last_login, were the failure to count
SignInLastLoginStrict(updateFault) ==
    IF updateFault THEN Result("signIn", FALSE, "Could not update last login", "")
    ELSE Result("signIn", TRUE, "", "")

\* signIn after the update of last_login: its error is not looked at, its
\* exception is caught and logged, and signIn returns success
SignInLastLogin(updateFault) == Result("signIn", TRUE, "", "")

\* signIn with the right password: the session becomes the user's.  The
\* update of last_login touches no column kept here; updateFault is its
\* failure.
SignIn(c, u) ==
    /\ configured
    /\ pc[c] = "idle"
    /\ u \in DOMAIN users
    /\ users[u].email_confirmed
    /\ session' = [session EXCEPT ![c] = u]
    /\ \E updateFault \in BOOLEAN :
          ret' = [ret EXCEPT ![c] = SignInLastLogin(updateFault)]
    /\ UNCHANGED <<users, profiles, organizations, pc, loc, last, nUpdates, configured>>

SignOut(c) ==
    /\ pc[c] = "idle"
    /\ session[c] # NULL
    /\ session' = [session EXCEPT ![c] = NULL]
    /\ ret' = [ret EXCEPT ![c] = Result("signOut", TRUE, "", "")]
    /\ UNCHANGED <<users, profiles, organizations, pc, loc, last, nUpdates, configured>>

\* The error texts signInWithPassword answers with: the two signIn looks
\* for, another text of the provider, and an error without a message.
DatabaseGrantMessages == {"Database error granting user"}

InvalidCredentialMessages == {"Invalid login credentials"}

SignInErrors ==
    DatabaseGrantMessages \cup InvalidCredentialMessages \cup {"Email not confirmed", ""}

\* exceptions thrown inside signIn's try block
SignInExceptions == {"Failed to fetch"}

InvalidLogin == "Invalid email or password. Please check your credentials and try again."

\* signIn's answer to the error of signInWithPassword
SignInFailure(message) ==
    IF message \in DatabaseGrantMessages THEN Result("signIn", FALSE, DatabaseIssue, "")
    ELSE IF message \in InvalidCredentialMessages THEN Result("signIn", FALSE, InvalidLogin, "")
    ELSE IF message # "" THEN Result("signIn", FALSE, message, "")
    ELSE Result("signIn", FALSE, "Login failed. Please try again.", "")

\* signIn's catch block
SignInCaught(message) == Result("signIn", FALSE, message, "")

\* signIn refused: clearInvalidSession has signed the browser out, then the
\* provider answers with an error or the call throws
SignInError(c, thrown, message) ==
    /\ configured
    /\ pc[c] = "idle"
    /\ IF thrown THEN message \in SignInExceptions ELSE message \in SignInErrors
    /\ session' = [session EXCEPT ![c] = NULL]
    /\ ret' = [ret EXCEPT ![c] =
                 IF thrown THEN SignInCaught(message) ELSE SignInFailure(message)]
    /\ UNCHANGED <<users, profiles, organizations, pc, loc, last, nUpdates, configured>>

NotConfiguredMessage ==
    "Authentication service not configured. Please check your Supabase configuration."

\* the texts signIn and the login page write themselves
UserFacingMessages ==
    {NotConfiguredMessage, DatabaseIssue, InvalidLogin, "Login failed. Please try again.",
     "Login failed. Please check your credentials."}

\* the login page shows result.error, or its own text when there is none
LoginToast(result) ==
    IF result.error # "" THEN result.error
    ELSE "Login failed. Please check your credentials."

\* errors of the other calls to the identity provider
AuthErrors == {"Auth session missing!"}

\* signOut refused by the provider: the error is thrown inside the try block
SignOutError(c, message) ==
    /\ pc[c] = "idle"
    /\ ret' = [ret EXCEPT ![c] = Result("signOut", FALSE, message, "")]
    /\ UNCHANGED <<users, profiles, organizations, session, pc, loc, last, nUpdates,
                   configured>>

\* resetPassword: the configuration test is outside the try block
ResetPassword(c, email, message) ==
    /\ pc[c] = "idle"
    /\ ret' = [ret EXCEPT ![c] =
                 IF ~configured THEN Thrown("resetPassword", "Authentication service not configured")
                 ELSE IF message # "" THEN Result("resetPassword", FALSE, message, "")
                 ELSE Result("resetPassword", TRUE, "", "")]
    /\ UNCHANGED <<users, profiles, organizations, session, pc, loc, last, nUpdates,
                   configured>>

\* updatePassword: no configuration test; without a configuration the call
\* to the provider fails
UpdatePassword(c, message) ==
    /\ pc[c] = "idle"
    /\ ~configured => message # ""
    /\ ret' = [ret EXCEPT ![c] =
                 IF message # "" THEN Result("updatePassword", FALSE, message, "")
                 ELSE Result("updatePassword", TRUE, "", "")]
    /\ UNCHANGED <<users, profiles, organizations, session, pc, loc, last, nUpdates,
                   configured>>

\* signUp and signIn called without a configuration
NotConfigured(c, op) ==
    /\ ~configured
    /\ pc[c] = "idle"
    /\ op \in {"signUp", "signIn"}
    /\ ret' = [ret EXCEPT ![c] = Result(op, FALSE, NotConfiguredMessage, "")]
    /\ UNCHANGED <<users, profiles, organizations, session, pc, loc, last, nUpdates,
                   configured>>

\* --------------------------------------------------- direct store access
RequestOps == {"select", "insert", "update", "delete"}

\* the patches sent in a direct update
RequestPatches == {[first_name |-> "Eve", last_name |-> "Roe"]}

\* only an update carries a patch
NoPatch == [id |-> NULL]

PatchesOf(op) == IF op = "update" THEN RequestPatches ELSE {NoPatch}

\* One statement on profiles keyed by id, sent with the credential cred
Request(cred, uid, op, target, patch) ==
    CASE op = "select" -> SelectSingle(cred, uid, target, profiles)
      [] op = "insert" -> Insert(cred, uid, MissingProfileRow(target, users[target]),
                                 profiles, organizations)
      [] op = "update" -> Update(cred, uid, ById(profiles, target), patch,
                                 profiles, organizations)
      [] op = "delete" -> Delete(cred, uid, ById(profiles, target), profiles)

\* a client of the platform sends the statement with its session
ClientRequest(c, op, target, patch) ==
    /\ pc[c] = "idle"
    /\ target \in DOMAIN users
    /\ op = "update" => nUpdates < MaxUpdates
    /\ LET uid == session[c]
           r == Request(CredOf(uid), uid, op, target, patch)
       IN  /\ profiles' = r.tbl
           /\ last' = Stmt(op, CredOf(uid), uid, target, r.code, Cardinality(r.rows))
    /\ nUpdates' = IF op = "update" THEN nUpdates + 1 ELSE nUpdates
    /\ UNCHANGED <<users, organizations, session, pc, loc, ret, configured>>

\* the trusted backend sends it with the service-role key
ServiceRequest(op, target, patch) ==
    /\ target \in DOMAIN users
    /\ op # "select" => nUpdates < MaxUpdates
    /\ LET r == Request("service_role", NULL, op, target, patch)
       IN  /\ profiles' = r.tbl
           /\ last' = Stmt(op, "service_role", NULL, target, r.code, Cardinality(r.rows))
    /\ nUpdates' = IF op # "select" THEN nUpdates + 1 ELSE nUpdates
    /\ UNCHANGED <<users, organizations, session, pc, loc, ret, configured>>

\* ------------------------------------------------------------ analytics
\* USING of analytics_org_access; FOR ALL, so it is also the check of new rows
analytics_org_access(uid, row, tbl) ==
    \E p \in Rows(tbl) :
        /\ SqlEq(p.id, uid)
        /\ (p.role = "super_admin" \/ SqlEq(p.organization_id, row.organization_id))

AnalyticsAllowed(cred, uid, row, tbl) ==
    cred = "authenticated" /\ analytics_org_access(uid, row, tbl)

\* the rows the migration seeds, all three without an organization
SampleAnalytics == {[id |-> k, organization_id |-> NULL] : k \in 1..3}

\* the analytics table: the seeded rows and one row of each organization
AnalyticsRows ==
    SampleAnalytics \cup {[id |-> 3 + o, organization_id |-> o] : o \in OrgIds}

AnalyticsOps ==
    {"analytics_select", "analytics_insert", "analytics_update", "analytics_delete"}

\* One statement on one analytics row, sent by a browser with its session:
\* a refused insert is an error, a refused select, update or delete finds no
\* row.  The contents of the table are not tracked.
AnalyticsRequest(c, op, row) ==
    /\ pc[c] = "idle"
    /\ LET uid == session[c]
           allowed == AnalyticsAllowed(CredOf(uid), uid, row, profiles)
           code == IF op = "analytics_insert" /\ ~allowed THEN "42501" ELSE "ok"
       IN  last' = Stmt(op, CredOf(uid), uid, row.id, code, IF allowed THEN 1 ELSE 0)
    /\ UNCHANGED <<users, profiles, organizations, session, pc, loc, ret, nUpdates,
                   configured>>

\* ------------------------------------------------------- specifications
\* Spec: one browser going through the facade, with the trigger, the
\* migration and the identity provider acting in between.
Browser == {"c1"}

Next ==
    \/ \E c \in Browser, email \in Emails, orgName \in OrgNames,
          firstName \in FirstNames, lastName \in LastNames,
          confirmed \in BOOLEAN, raise \in BOOLEAN :
            SignUpAuth(c, email, orgName, firstName, lastName, confirmed, raise)
    \/ \E c \in Browser, ok \in BOOLEAN : SignUpOrg(c, ok)
    \/ \E c \in Browser : SignUpProfile(c)
    \/ \E c \in Browser : GetProfileSelect(c)
    \/ \E c \in Browser : GetProfileInsert(c)
    \/ \E c \in Browser, profileData \in Patches : UpdateProfile(c, profileData)
    \/ \E c \in Browser, fault \in BOOLEAN : EnsureSuperAdminCheck(c, fault)
    \/ \E c \in Browser, fault \in BOOLEAN : EnsureSuperAdminUpdate(c, fault)
    \/ SuperAdminSetup
    \/ \E u \in UserIds, raise \in BOOLEAN : HandleNewUser(u, raise)
    \/ \E u \in UserIds : ConfirmEmail(u)
    \/ \E c \in Browser, u \in UserIds : SignIn(c, u)
    \/ \E c \in Browser : SignOut(c)

Spec == Init /\ [][Next]_vars

\* SpecFacade: one browser calling the facade, with or without a
\* configuration, every call to the provider or the store answering with
\* success or with an error.
InitFacade ==
    /\ users = <<>>
    /\ profiles = <<>>
    /\ organizations = <<>>
    /\ session = [c \in Clients |-> NULL]
    /\ pc = [c \in Clients |-> "idle"]
    /\ loc = [c \in Clients |-> NoLoc]
    /\ ret = [c \in Clients |-> NoRet]
    /\ last = NoStmt
    /\ nUpdates = 0
    /\ configured \in BOOLEAN

NextFacade ==
    \/ \E c \in Browser, email \in Emails, orgName \in OrgNames,
          firstName \in FirstNames, lastName \in LastNames,
          confirmed \in BOOLEAN, raise \in BOOLEAN :
            SignUpAuth(c, email, orgName, firstName, lastName, confirmed, raise)
    \/ \E c \in Browser, ok \in BOOLEAN : SignUpOrg(c, ok)
    \/ \E c \in Browser : SignUpProfile(c)
    \/ \E c \in Browser, u \in UserIds : SignIn(c, u)
    \/ \E c \in Browser, thrown \in BOOLEAN, message \in SignInErrors \cup SignInExceptions :
          SignInError(c, thrown, message)
    \/ \E c \in Browser : SignOut(c)
    \/ \E c \in Browser, message \in AuthErrors : SignOutError(c, message)
    \/ \E c \in Browser, email \in Emails, message \in AuthErrors \cup {""} :
          ResetPassword(c, email, message)
    \/ \E c \in Browser, message \in AuthErrors \cup {""} : UpdatePassword(c, message)
    \/ \E c \in Browser, profileData \in RequestPatches : UpdateProfile(c, profileData)
    \/ \E c \in Browser, op \in {"signUp", "signIn"} : NotConfigured(c, op)

SpecFacade == InitFacade /\ [][NextFacade]_vars

\* SpecSignUp: two browsers signing up concurrently, every await of signUp
\* being a step of its own.
NextSignUp ==
    \/ \E c \in Clients, email \in Emails, orgName \in OrgNames,
          firstName \in FirstNames, lastName \in LastNames,
          confirmed \in BOOLEAN, raise \in BOOLEAN :
            SignUpAuth(c, email, orgName, firstName, lastName, confirmed, raise)
    \/ \E c \in Clients, ok \in BOOLEAN : SignUpOrg(c, ok)
    \/ \E c \in Clients : SignUpProfile(c)

SpecSignUp == Init /\ [][NextSignUp]_vars

\* SpecPolicy: statements sent directly to the store, by a signed-in browser
\* and by the trusted backend, against any profiles table the constraints
\* admit.
EmailSeq == <<SuperAdminEmail, "alice@co.com", "bob@co.com">>

Principals == {i \in UserIds : i <= Len(EmailSeq)}

AuthUser(i, confirmed) ==
    [email |-> EmailSeq[i], email_confirmed |-> confirmed,
     first_name |-> "Ann", last_name |-> "Lee"]

\* the actor's own row: the policies read its role and organization
ActorRows(i) ==
    {[NewUserRow(i, AuthUser(i, TRUE)) EXCEPT !.role = r, !.organization_id = o] :
        r \in Roles, o \in OrgIds \cup {NULL}}

\* any other row: the policies read its id and organization
MemberRows(i) ==
    {[NewUserRow(i, AuthUser(i, TRUE)) EXCEPT !.role = "user", !.organization_id = o] :
        o \in OrgIds \cup {NULL}}

PolicyRows(a, i) == IF i = a THEN ActorRows(i) ELSE MemberRows(i)

InitPolicy ==
    /\ users = [i \in Principals |-> AuthUser(i, TRUE)]
    /\ organizations = [o \in OrgIds |-> [name |-> "Acme"]]
    /\ \E a \in Principals :
          /\ session = [c \in Clients |-> IF c = "c1" THEN a ELSE NULL]
          /\ \E S \in SUBSET Principals :
                /\ a \in S
                /\ \E t \in [S -> UNION {PolicyRows(a, i) : i \in S}] :
                      /\ \A i \in S : t[i] \in PolicyRows(a, i)
                      /\ profiles = t
    /\ pc = [c \in Clients |-> "idle"]
    /\ loc = [c \in Clients |-> NoLoc]
    /\ ret = [c \in Clients |-> NoRet]
    /\ last = NoStmt
    /\ nUpdates = 0
    /\ configured = TRUE

NextPolicy ==
    \/ \E c \in Browser, op \in RequestOps, target \in UserIds :
          \E patch \in PatchesOf(op) : ClientRequest(c, op, target, patch)
    \/ \E op \in RequestOps, target \in UserIds :
          \E patch \in PatchesOf(op) : ServiceRequest(op, target, patch)

SpecPolicy == InitPolicy /\ [][NextPolicy]_vars

\* SpecAnalytics: statements on analytics sent by a signed-in browser, against
\* any profiles table the constraints admit.
NextAnalytics ==
    \E c \in Browser, op \in AnalyticsOps, row \in AnalyticsRows : AnalyticsRequest(c, op, row)

SpecAnalytics == InitPolicy /\ [][NextAnalytics]_vars

\* SpecBootstrap: the bootstrap steps run in any order and any number of
\* times over a fixed set of principals, from any state of the reserved
\* row.
DriftedRows(i) ==
    {[NewUserRow(i, AuthUser(i, v)) EXCEPT !.role = r, !.organization_id = o,
                                           !.is_active = a, !.first_name = n[1],
                                           !.last_name = n[2]] :
        r \in Roles, o \in OrgIds \cup {NULL}, v \in BOOLEAN, a \in BOOLEAN,
        n \in {<<"Ann", "Lee">>, <<"Super", "Admin">>}}

BootstrapRows(i) ==
    IF EmailSeq[i] = SuperAdminEmail THEN DriftedRows(i)
    ELSE {NewUserRow(i, AuthUser(i, FALSE))}

InitBootstrap ==
    /\ \E f \in [Principals -> BOOLEAN] : users = [i \in Principals |-> AuthUser(i, f[i])]
    /\ organizations = [o \in OrgIds |-> [name |-> "Acme"]]
    /\ \E S \in SUBSET Principals :
          \E t \in [S -> UNION {BootstrapRows(i) : i \in Principals}] :
              /\ \A i \in S : t[i] \in BootstrapRows(i)
              /\ profiles = t
    /\ \E u \in Principals \cup {NULL} :
          session = [c \in Clients |-> IF c = "c1" THEN u ELSE NULL]
    /\ pc = [c \in Clients |-> "idle"]
    /\ loc = [c \in Clients |-> NoLoc]
    /\ ret = [c \in Clients |-> NoRet]
    /\ last = NoStmt
    /\ nUpdates = 0
    /\ configured = TRUE

NextBootstrap ==
    \/ \E u \in UserIds, raise \in BOOLEAN : HandleNewUser(u, raise)
    \/ SuperAdminSetup
    \/ \E c \in Browser, fault \in BOOLEAN : EnsureSuperAdminCheck(c, fault)
    \/ \E c \in Browser, fault \in BOOLEAN : EnsureSuperAdminUpdate(c, fault)

SpecBootstrap == InitBootstrap /\ [][NextBootstrap]_vars

\* SpecRewrite: the bootstrap writes against profiles that exist and whose
\* role or organization an administrator has edited; the browser is idle or
\* between the awaits of a signUp for one of the principals.
EditedRows(i) ==
    {[NewUserRow(i, AuthUser(i, FALSE)) EXCEPT !.role = r, !.organization_id = o] :
        r \in Roles, o \in {NULL, 1}}

SignUpLocals(u) ==
    {[user |-> u, email |-> EmailSeq[u], orgName |-> IF o = NULL THEN "" ELSE "Acme",
      organizationId |-> o, confirmed |-> v, firstName |-> "Ann", lastName |-> "Lee"] :
        o \in {NULL, 1}, v \in BOOLEAN}

InitRewrite ==
    /\ \E f \in [Principals -> BOOLEAN] : users = [i \in Principals |-> AuthUser(i, f[i])]
    /\ organizations = [o \in OrgIds |-> [name |-> "Acme"]]
    /\ \E S \in SUBSET Principals :
          \E t \in [S -> UNION {EditedRows(i) : i \in Principals}] :
              /\ \A i \in S : t[i] \in EditedRows(i)
              /\ profiles = t
    /\ \/ /\ pc = [c \in Clients |-> "idle"]
          /\ loc = [c \in Clients |-> NoLoc]
          /\ session = [c \in Clients |-> NULL]
       \/ \E u \in Principals : \E l \in SignUpLocals(u) :
          /\ pc = [c \in Clients |-> IF c = "c1" THEN "su_profile" ELSE "idle"]
          /\ loc = [c \in Clients |-> IF c = "c1" THEN l ELSE NoLoc]
          /\ session = [c \in Clients |-> IF c = "c1" /\ l.confirmed THEN u ELSE NULL]
    /\ ret = [c \in Clients |-> NoRet]
    /\ last = NoStmt
    /\ nUpdates = 0
    /\ configured = TRUE

NextRewrite ==
    \/ \E u \in UserIds, raise \in BOOLEAN : HandleNewUser(u, raise)
    \/ \E c \in Browser : SignUpProfile(c)
    \/ \E u \in UserIds : ConfirmEmail(u)

SpecRewrite == InitRewrite /\ [][NextRewrite]_vars

\* ------------------------------------------------- properties: policies
\* The outcome of the same select had the row not been there
AbsentCode(s) ==
    SelectSingle(s.cred, s.uid, s.target,
                 [i \in DOMAIN profiles \ {s.target} |-> profiles[i]]).code

\* the last statement was a select of an existing row sent by a browser
\* whose user has a profile
ActorSelected ==
    /\ last.op = "select"
    /\ last.cred = "authenticated"
    /\ last.uid \in DOMAIN profiles
    /\ last.target \in DOMAIN profiles

\* C3: an actor with role user that selects another principal's row gets an
\* error that differs from the outcome for a row that does not exist, and
\* selecting its own row returns that row.
C3_DenialDistinguishable ==
    (ActorSelected /\ profiles[last.uid].role = "user") =>
        IF last.target = last.uid
        THEN last.code = "ok" /\ last.count = 1
        ELSE last.code \notin {"ok", AbsentCode(last)}

ByActor(op) == last'.op = op /\ last'.cred = "authenticated"

ByService(op) == last'.op = op /\ last'.cred = "service_role"

ActorIsSuperAdmin ==
    last'.uid \in DOMAIN profiles /\ profiles[last'.uid].role = "super_admin"

\* C5: default deny.  A statement of an authenticated actor takes effect only
\* where a policy matches: its inserts and deletes never do, its update of
\* another principal's row only if it is a super_admin, its select of a row
\* only if the row is its own, it is a super_admin, or it is an org_admin or
\* manager of the row's organization.  Every statement of the service role
\* takes effect.
C5_DefaultDenyStep ==
    LET t == last'.target
    IN  /\ ByActor("insert") => (last'.code = "42501" /\ profiles' = profiles)
        /\ ByActor("delete") => (last'.count = 0 /\ profiles' = profiles)
        /\ (ByActor("update") /\ t # last'.uid /\ ~ActorIsSuperAdmin)
                => (last'.count = 0 /\ profiles' = profiles)
        /\ (ByActor("select") /\ last'.code = "ok")
                => \/ t = last'.uid
                   \/ ActorIsSuperAdmin
                   \/ /\ last'.uid \in DOMAIN profiles
                      /\ profiles[last'.uid].role \in {"org_admin", "manager"}
                      /\ profiles[last'.uid].organization_id # NULL
                      /\ profiles[last'.uid].organization_id = profiles[t].organization_id
        /\ (ByService("select") /\ t \in DOMAIN profiles)
                => (last'.code = "ok" /\ last'.count = 1)
        /\ (ByService("insert") /\ t \notin DOMAIN profiles)
                => (last'.code = "ok" /\ t \in DOMAIN profiles')
        /\ (ByService("update") /\ t \in DOMAIN profiles)
                => (last'.count = 1 /\ \A patch \in RequestPatches :
                                         profiles'[t] = Apply(profiles[t], patch))
        /\ (ByService("delete") /\ t \in DOMAIN profiles)
                => (last'.count = 1 /\ t \notin DOMAIN profiles')

C5_DefaultDeny == [][C5_DefaultDenyStep]_vars

\* a browser with a session was refused the insert of a row that is missing
C5_InsertRefused ==
    /\ last.op = "insert"
    /\ last.cred = "authenticated"
    /\ last.target \notin DOMAIN profiles
    /\ last.code = "42501"

\* -------------------------------------------------- properties: sign-up
\* a signUp for this principal has passed the provider and not yet returned
SigningUp(u) == \E c \in Clients : pc[c] \in {"su_org", "su_profile"} /\ loc[c].user = u

PrincipalsOf(email) == {u \in DOMAIN users : users[u].email = email}

ProfilesOf(email) == {i \in DOMAIN profiles : profiles[i].email = email}

\* C7: the profile of the principal that signed up with the reserved address
\* has role super_admin and no organization, with or without an organization
\* name, whether written by the trigger or by signUp's upsert.
C7_ReservedSignUp ==
    /\ \A u \in PrincipalsOf(SuperAdminEmail) \cap DOMAIN profiles :
          profiles[u].role = "super_admin" /\ profiles[u].organization_id = NULL
    /\ \A c \in Clients :
          (pc[c] = "su_profile" /\ loc[c].email = SuperAdminEmail) =>
              /\ SignUpPayload(loc[c]).role = "super_admin"
              /\ SignUpPayload(loc[c]).organization_id = NULL

\* the only principal signed up with the reserved address and an
\* organization name, and its profile is there
C7_ReservedWithOrganization ==
    /\ \E c \in Clients : ret[c] = Result("signUp", TRUE, "", SuperAdminEmail)
    /\ Cardinality(DOMAIN users) = 1
    /\ DOMAIN organizations # {}
    /\ \E u \in PrincipalsOf(SuperAdminEmail) \cap DOMAIN profiles :
          profiles[u].role = "super_admin" /\ profiles[u].organization_id = NULL

\* the clients whose signUp for this address got past the provider
Winners(email) ==
    {c \in Clients : \/ pc[c] \in {"su_org", "su_profile"} /\ loc[c].email = email
                     \/ pc[c] = "idle" /\ ret[c] = Result("signUp", TRUE, "", email)}

\* C10: of the signUp calls running concurrently for one address, one
\* succeeds and every other returns the failure of a registered address; one
\* principal and at most one profile hold the address.
C10_ConcurrentSignUp ==
    \A e \in Emails :
        /\ Cardinality(Winners(e)) <= 1
        /\ Cardinality(PrincipalsOf(e)) <= 1
        /\ Cardinality(ProfilesOf(e)) <= 1
        /\ \A c \in Clients :
              (ret[c].op = "signUp" /\ ret[c].arg = e /\ ~ret[c].success) =>
                  (ret[c].error = AlreadyRegistered /\ Cardinality(PrincipalsOf(e)) = 1)

\* one signUp was refused while the other, for the same address, had not
\* returned yet
C10_RefusedWhileRunning ==
    \E c, d \in Clients :
        /\ c # d
        /\ pc[c] \in {"su_org", "su_profile"}
        /\ ret[d] = Result("signUp", FALSE, AlreadyRegistered, loc[c].email)

\* C6: a signUp that returns success for another address than the reserved
\* one leaves the principal's profile with role org_admin and the new
\* organization's id when the organization was created, with role user and
\* no organization when no organization name was given.
C6_SignUpProfileStep ==
    \A c \in Clients :
        (/\ pc[c] = "su_profile" /\ pc'[c] = "idle"
         /\ ret'[c].success
         /\ loc[c].email # SuperAdminEmail
         /\ loc[c].user \in DOMAIN profiles') =>
            LET row == profiles'[loc[c].user]
            IN  /\ loc[c].organizationId # NULL =>
                      /\ loc[c].organizationId \in DOMAIN organizations'
                      /\ row.role = "org_admin"
                      /\ row.organization_id = loc[c].organizationId
                /\ loc[c].orgName = "" =>
                      (row.role = "user" /\ row.organization_id = NULL)

C6_SignUpWithOrganization == [][C6_SignUpProfileStep]_vars

\* C1: every principal whose signUp has returned has exactly one profile
\* row, whatever the trigger, getCurrentProfile and the reconciliation did
\* since.
C1_OneProfilePerPrincipal ==
    \A u \in DOMAIN users :
        ~SigningUp(u) => Cardinality({i \in DOMAIN profiles : profiles[i].id = u}) = 1

\* C2: at most one profile has role super_admin, and it is the one with the
\* reserved address, in the profile or in the principal it belongs to.
C2_SingleSuperAdmin ==
    LET admins == {i \in DOMAIN profiles : profiles[i].role = "super_admin"}
    IN  /\ Cardinality(admins) <= 1
        /\ \A i \in admins : SuperAdminEmail \in {profiles[i].email, users[i].email}

\* ------------------------------------------------ properties: bootstrap
\* the rows of a profiles table that carry the reserved address
Reserved(tbl) == {r \in Rows(tbl) : r.email = SuperAdminEmail}

Converged(tbl) ==
    \A r \in Reserved(tbl) : r.role = "super_admin" /\ r.organization_id = NULL

\* C8: from any state of the row with the reserved address, a reconciliation
\* pass that ends without a store error leaves it with role super_admin and
\* no organization, and later passes keep it so: the DO block run on the
\* current table, and ensureSuperAdmin once it has returned.
C8_ReconciliationConverges ==
    /\ Converged(super_admin_setup(profiles, users, organizations))
    /\ \A c \in Browser :
          (pc[c] = "idle" /\ ret[c] = Result("ensureSuperAdmin", TRUE, "", ""))
              => Converged(profiles)

\* C9: the bootstrap steps, the trigger for each principal and the DO block,
\* are idempotent and commute: running one twice equals running it once, and
\* two of them in either order give the same profiles table.
C9_BootstrapOrderFree ==
    LET H(t, u) == handle_new_user(t, organizations, u, users[u], FALSE)
        R(t) == super_admin_setup(t, users, organizations)
    IN  /\ R(R(profiles)) = R(profiles)
        /\ \A u \in DOMAIN users : H(H(profiles, u), u) = H(profiles, u)
        /\ \A u, v \in DOMAIN users : H(H(profiles, u), v) = H(H(profiles, v), u)
        /\ \A u \in DOMAIN users : R(H(profiles, u)) = H(R(profiles), u)

\* --------------------------------------------------- properties: facade
\* this step is a signIn call of the browser returning
SignInReturns(c) ==
    /\ pc[c] = "idle" /\ pc'[c] = "idle"
    /\ ret'[c].op = "signIn"

\* C11: a failed profile write never fails the authentication.  The
\* principal exists once signUp is past the provider, whatever the trigger's
\* INSERT did; signUp then returns success and keeps the session, whatever
\* the organization insert and the profile upsert did; a signIn that got its
\* session returns success, whatever the update of last_login did.
C11_WriteFailureStep ==
    \A c \in Clients :
        /\ (pc[c] = "idle" /\ pc'[c] \in {"su_org", "su_profile"})
                => loc'[c].user \in DOMAIN users'
        /\ (pc[c] \in {"su_org", "su_profile"} /\ pc'[c] = "idle")
                => /\ ret'[c] = Result("signUp", TRUE, "", loc[c].email)
                   /\ session'[c] = session[c]
        /\ (SignInReturns(c) /\ session'[c] # NULL)
                => ret'[c] = Result("signIn", TRUE, "", "")

C11_AuthSurvivesWriteFailure == [][C11_WriteFailureStep]_vars

\* signUp returned success for a principal that was left without a profile
C11_SuccessWithoutProfile ==
    \E c \in Clients, u \in DOMAIN users :
        /\ pc[c] = "idle"
        /\ ret[c] = Result("signUp", TRUE, "", users[u].email)
        /\ u \notin DOMAIN profiles

\* C12: no facade call ends with an exception reaching its caller, with or
\* without a configuration; a failure is a result with success false and
\* the message in error.
C12_FailuresAreResults ==
    \A c \in Clients :
        /\ ~ret[c].thrown
        /\ ret[c].success => ret[c].error = ""

\* C13: the message of a failed signIn, as returned and as shown by the
\* login page, is one of the fixed user-facing texts, never the text
\* received from the provider or the store.
C13_SignInMessageFixed ==
    \A c \in Clients :
        (ret[c].op = "signIn" /\ ~ret[c].success) =>
            /\ ret[c].error \in UserFacingMessages
            /\ LoginToast(ret[c]) \in UserFacingMessages

\* --------------------------------------- properties: bootstrap writes
\* two rows that differ at most in email and email_verified
SameButEmail(r1, r2) ==
    \A f \in DOMAIN r1 \ {"email", "email_verified"} : r1[f] = r2[f]

C14_RewriteStep ==
    \A u \in DOMAIN profiles :
        u \in DOMAIN profiles' /\ SameButEmail(profiles[u], profiles'[u])

Correct(tbl) ==
    /\ Reserved(tbl) # {}
    /\ \A r \in Reserved(tbl) : r = SuperAdminFix(r)

\* C15: when the reserved row is already correct, a reconciliation pass
\* writes nothing: the DO block leaves every row as it is and sets no
\* updated_at, and ensureSuperAdmin's check finds no row to update.
C15_NoWriteWhenCorrect ==
    Correct(profiles) =>
        /\ super_admin_setup(profiles, users, organizations) = profiles
        /\ super_admin_setup_written(profiles, users, organizations) = {}
        /\ \A uid \in DOMAIN users \cup {NULL} :
              \A e \in SelectMaybeSingle(CredOf(uid), uid, SuperAdminEmail, profiles).rows :
                  e.role = "super_admin"

\* ------------------------------------------- properties: first fetch
C16_RepairStep ==
    \A c \in Clients :
        (/\ pc[c] = "gp_insert" /\ pc'[c] = "idle"
         /\ session[c] = loc[c].user
         /\ loc[c].user \notin DOMAIN profiles)
        => /\ loc[c].user \in DOMAIN profiles'
           /\ profiles'[loc[c].user].role = NewUserRole(users[loc[c].user].email)
           /\ ret'[c] = Result("getCurrentProfile", TRUE, "", "")

\* C16: when getCurrentProfile, called with the session of a principal that
\* has no profile, returns, the profile exists with the role derived from the
\* email and the call has returned it, not null.
C16_MissingProfileRepaired == [][C16_RepairStep]_vars

C17_RaceStep ==
    \A c \in Clients :
        (/\ pc[c] = "gp_insert" /\ pc'[c] = "idle"
         /\ session[c] = loc[c].user
         /\ loc[c].user \in DOMAIN profiles)
        => ret'[c] = Result("getCurrentProfile", TRUE, "", "")

\* C17: when another writer (the trigger, or a second getCurrentProfile) has
\* inserted the principal's profile between a getCurrentProfile's select and
\* its write, that call still returns the profile: it neither fails nor
\* returns null.
C17_FirstLoginRace == [][C17_RaceStep]_vars

\* ------------------------------------------ properties: self-service
\* this step is an updateProfile of the browser c that reached the store
UpdateProfileSent(c) ==
    /\ nUpdates' = nUpdates + 1
    /\ session[c] # NULL
    /\ ret'[c].op = "updateProfile"

C18_SelfServiceStep ==
    \A c \in Browser :
        (/\ UpdateProfileSent(c)
         /\ session[c] \in DOMAIN profiles
         /\ profiles[session[c]].role = "user")
        => /\ profiles'[session[c]].role = profiles[session[c]].role
           /\ profiles'[session[c]].organization_id = profiles[session[c]].organization_id

\* C18: an updateProfile sent by a principal whose role is user leaves the
\* role and the organization_id of that principal's profile as they were.
C18_SelfServiceFields == [][C18_SelfServiceStep]_vars

\* --------------------------------------------- properties: analytics
\* C19: a statement of an actor with a profile on an analytics row is allowed
\* exactly when the actor's role is super_admin or the actor's
\* organization_id equals the row's, both being NULL included.
C19_AnalyticsAccess ==
    (last.op \in AnalyticsOps /\ last.uid \in DOMAIN profiles) =>
        LET p == profiles[last.uid]
            row == CHOOSE r \in AnalyticsRows : r.id = last.target
        IN  (last.code = "ok" /\ last.count = 1)
               <=> (p.role = "super_admin" \/ p.organization_id = row.organization_id)

====
